---- MODULE Spec2Model ----
(***************************************************************************)
(* A model of the two calculation scripts of Island-Energy-Usage:          *)
(*   dog_shelter_energy.py  - class DogShelter (thermal energy estimator)  *)
(*   monthly_energy_uk.py   - calculate_monthly_usage and make_relative    *)
(*                                                                         *)
(* Numbers.  Python floats are modelled by exact rationals <<n, d>> with   *)
(* d > 0 in lowest terms; <<0, 0>> stands for a non-finite float (inf or   *)
(* nan), which is what a numpy scalar division by zero yields.  Equalities *)
(* between computed values are therefore equalities of exact arithmetic:   *)
(* they hold of the floats up to rounding.                                 *)
(*                                                                         *)
(* Mappings.  A Python dict is an insertion-ordered mapping; it is         *)
(* modelled by a sequence of records [key, val] with distinct keys.        *)
(***************************************************************************)
EXTENDS Integers, Sequences, FiniteSets

VARIABLES
  program,             \* which script's module the process runs
  \* ---- dog_shelter_energy.py: the fields of the DogShelter object
  area,
  heat_loss_ceof,
  climate,
  monthly_heating,
  monthly_lighting,
  monthly_energy,
  energy_consumption,
  ideal_temperature,   \* argument of the latest calculate_total_energy call
  returned,            \* value returned by the latest calculate_total_energy call
  \* ---- monthly_energy_uk.py
  df,                  \* rows of Postcode_level_all_meters_electricity_2024.csv
  mr,                  \* the latest make_relative call
  cmu                  \* the latest calculate_monthly_usage call

shelterVars == <<area, heat_loss_ceof, climate, monthly_heating, monthly_lighting,
                 monthly_energy, energy_consumption, ideal_temperature, returned>>
usageVars == <<df, mr, cmu>>
vars == <<program, shelterVars, usageVars>>

(***************************************************************************)
(* Bounds of the model                                                     *)
(***************************************************************************)
MaxMonths == 2

(***************************************************************************)
(* Literals of the source                                                  *)
(***************************************************************************)
LightingEnergyPerAreaWatts == 2
HoursPerMonth == 730
WattHoursPerKWh == 1000
DefaultIdealTemperature == 20
NormalizedSum == 12
MonthsPerYear == 12
KWhPerMWh == 1000

MonthNames == <<"January", "February", "March", "April", "May", "June", "July",
                "August", "September", "October", "November", "December">>

(***************************************************************************)
(* Exact rational arithmetic with a non-finite value                       *)
(***************************************************************************)
Abs(x) == IF x < 0 THEN -x ELSE x

RECURSIVE GCD(_, _)
GCD(a, b) == IF b = 0 THEN a ELSE GCD(b, a % b)

NonFinite == <<0, 0>>
IsFinite(x) == x[2] # 0

\* n/d for integers n, d; a zero denominator gives the non-finite value
Rat(n, d) ==
  IF d = 0 THEN NonFinite
  ELSE LET g == GCD(Abs(n), Abs(d))
           s == IF d < 0 THEN -1 ELSE 1
       IN  <<(s * n) \div g, (s * d) \div g>>

Zero == Rat(0, 1)
\* sums and products cancel common factors before multiplying
RAdd(x, y) ==
  IF IsFinite(x) /\ IsFinite(y)
  THEN LET g == GCD(x[2], y[2]) IN
       Rat(x[1] * (y[2] \div g) + y[1] * (x[2] \div g), (x[2] \div g) * y[2])
  ELSE NonFinite
RMul(x, y) ==
  IF IsFinite(x) /\ IsFinite(y)
  THEN LET a == Rat(x[1], y[2])
           b == Rat(y[1], x[2])
       IN  Rat(a[1] * b[1], a[2] * b[2])
  ELSE NonFinite
\* numpy float64 division: x/0 is inf or nan, never an exception
RDiv(x, y) ==
  IF IsFinite(x) /\ IsFinite(y) /\ y[1] # 0
  THEN RMul(x, Rat(y[2], y[1]))
  ELSE NonFinite
IsZero(x) == IsFinite(x) /\ x[1] = 0
IsPositive(x) == IsFinite(x) /\ x[1] > 0

RECURSIVE SeqSum(_)
SeqSum(s) == IF s = <<>> THEN Zero ELSE RAdd(SeqSum(SubSeq(s, 1, Len(s) - 1)), s[Len(s)])

(***************************************************************************)
(* Ordered mappings                                                        *)
(***************************************************************************)
Keys(m) == [i \in 1..Len(m) |-> m[i].key]
Values(m) == [i \in 1..Len(m) |-> m[i].val]
DistinctKeys(m) == \A i, j \in 1..Len(m) : m[i].key = m[j].key => i = j
MonthKeys == {MonthNames[i] : i \in 1..MaxMonths}
\* every mapping of at most MaxMonths distinct month names, in any order, to V
Mappings(V) ==
  UNION {{m \in [1..n -> [key : MonthKeys, val : V]] : DistinctKeys(m)} : n \in 0..MaxMonths}

(***************************************************************************)
(* dog_shelter_energy.py                                                   *)
(***************************************************************************)
Areas == {-2, 0, 150}
Coefs == {0, 4}
Temps == {15, 20, 24}
IdealTemperatures == {18, DefaultIdealTemperature, 25}

Climates == Mappings(Temps)

Max(a, b) == IF a >= b THEN a ELSE b

\* line 42: temperature difference (only for heating needs)
NoFloorTempDiff(ideal, temp) == ideal - temp
TempDiff(ideal, temp) == Max(0, ideal - temp)

calculate_heating(a, coef, temp_diff) ==
  Rat(temp_diff * a * coef * HoursPerMonth, WattHoursPerKWh)

calculate_lighting(a) ==
  Rat(a * LightingEnergyPerAreaWatts * HoursPerMonth, WattHoursPerKWh)

\* line 53: total energy for this month
HeatingOnlyTotal(heating_energy, lighting_energy) == heating_energy
MonthlyTotal(heating_energy, lighting_energy) == RAdd(heating_energy, lighting_energy)

\* lines 36-38: the three lists are rebound to fresh empty lists
KeepList(old) == old
ResetList(old) == <<>>

\* lines 40-55: the loop over climate.items(), from the i-th item on
RECURSIVE MonthLoop(_, _, _, _, _, _)
MonthLoop(a, coef, clim, ideal, i, st) ==
  IF i > Len(clim) THEN st
  ELSE LET heating_energy == calculate_heating(a, coef, TempDiff(ideal, clim[i].val))
           lighting_energy == calculate_lighting(a)
           monthly_total == MonthlyTotal(heating_energy, lighting_energy)
       IN  MonthLoop(a, coef, clim, ideal, i + 1,
                     [heating |-> Append(st.heating, heating_energy),
                      lighting |-> Append(st.lighting, lighting_energy),
                      energy |-> Append(st.energy, monthly_total),
                      total |-> RAdd(st.total, monthly_total)])

\* lines 33-57: the object's lists and the return value after the call
calculate_total_energy(a, coef, clim, oldHeating, oldLighting, oldEnergy, ideal) ==
  MonthLoop(a, coef, clim, ideal, 1,
            [total |-> Zero,
             energy |-> ResetList(oldEnergy),
             heating |-> ResetList(oldHeating),
             lighting |-> ResetList(oldLighting)])

\* lines 3-12: DogShelter(name, a, coef, clim)
ShelterConstructed(a, coef, clim) ==
  LET st == calculate_total_energy(a, coef, clim, <<>>, <<>>, <<>>, DefaultIdealTemperature) IN
  /\ area = a
  /\ heat_loss_ceof = coef
  /\ climate = clim
  /\ monthly_heating = st.heating
  /\ monthly_lighting = st.lighting
  /\ monthly_energy = st.energy
  /\ energy_consumption = st.total
  /\ ideal_temperature = DefaultIdealTemperature
  /\ returned = st.total

NoObject == "none"
NoShelter ==
  /\ area = NoObject /\ heat_loss_ceof = NoObject /\ climate = NoObject
  /\ monthly_heating = NoObject /\ monthly_lighting = NoObject
  /\ monthly_energy = NoObject /\ energy_consumption = NoObject
  /\ ideal_temperature = NoObject /\ returned = NoObject

\* a call shelter.calculate_total_energy(ideal) on the constructed object
CalculateTotalEnergy(ideal) ==
  /\ program = "dog_shelter_energy"
  /\ LET st == calculate_total_energy(area, heat_loss_ceof, climate, monthly_heating,
                                      monthly_lighting, monthly_energy, ideal) IN
       /\ monthly_heating' = st.heating
       /\ monthly_lighting' = st.lighting
       /\ monthly_energy' = st.energy
       /\ returned' = st.total
  /\ ideal_temperature' = ideal
  /\ UNCHANGED <<program, area, heat_loss_ceof, climate, energy_consumption, usageVars>>

(***************************************************************************)
(* monthly_energy_uk.py                                                    *)
(***************************************************************************)
\* postcodes are sequences of characters; a missing Postcode cell is NaN
NaN == <<"NaN">>
IV49 == <<"I", "V", "4", "9">>
IV47 == <<"I", "V", "4", "7">>
EH1 == <<"E", "H", "1">>
Row(p, c, n) == [Postcode |-> p, Total_cons_kwh |-> c, Num_meters |-> n]

\* contents the dataset file may have
Datasets ==
  { <<>>,
    <<Row(IV49, 6000, 3)>>,
    <<Row(IV49, 6000, 3), Row(IV47, 3000, 2), Row(EH1, 800, 0)>>,
    <<Row(EH1, 0, 0), Row(NaN, 500, 1)>> }

PostcodeKeys == {IV49, <<"I", "V">>, EH1, <<"Z", "E">>}
HouseholdCounts == {0, 540}
DefaultDomesticPercentage == Rat(406, 1000)
DomesticPercentages == {DefaultDomesticPercentage, Rat(1, 1), Zero}
WeightValues == {Rat(-1, 1), Zero, Rat(1, 1), Rat(3, 2)}

WeightProfiles == Mappings(WeightValues)

\* line 22: Series.str.startswith(postcode, na=False)
StartsWith(s, prefix) ==
  /\ s # NaN
  /\ Len(prefix) <= Len(s)
  /\ SubSeq(s, 1, Len(prefix)) = prefix

\* line 22: the rows kept by the boolean mask
FilterRows(d, postcode) ==
  LET Matches(r) == StartsWith(r.Postcode, postcode) IN SelectSeq(d, Matches)

\* lines 28-29: Series.sum()
RECURSIVE SumTotalCons(_)
SumTotalCons(rows) ==
  IF rows = <<>> THEN 0 ELSE rows[1].Total_cons_kwh + SumTotalCons(Tail(rows))
RECURSIVE SumNumMeters(_)
SumNumMeters(rows) ==
  IF rows = <<>> THEN 0 ELSE rows[1].Num_meters + SumNumMeters(Tail(rows))

\* line 24
PostcodeMissing(postcode_data) == postcode_data = <<>>

\* line 31
NeverMissing(total_households_data) == FALSE
HouseholdsMissing(total_households_data) == total_households_data = 0

\* line 46: one entry of normalized_monthly
NormalizeToOne(factor, sum_relative) == RDiv(factor, sum_relative)
Normalize(factor, sum_relative) ==
  RMul(RDiv(factor, sum_relative), Rat(NormalizedSum, 1))

\* line 51: one entry of monthly_consumption
FlatMonthlyValue(total_annual_consumption, relative_factor) ==
  RDiv(RDiv(total_annual_consumption, Rat(MonthsPerYear, 1)), Rat(KWhPerMWh, 1))
MonthlyValue(total_annual_consumption, relative_factor) ==
  RDiv(RMul(RDiv(total_annual_consumption, Rat(MonthsPerYear, 1)), relative_factor),
       Rat(KWhPerMWh, 1))

NoMapping == <<>>
\* an f-string: its template and the postcode formatted into it
Message(template, postcode) == [template |-> template, postcode |-> postcode]
NoMessage == Message("", <<>>)
Outcome(exc, msg, ret, norm, tac, w) ==
  [exception |-> exc, message |-> msg, ret |-> ret, normalized_monthly |-> norm,
   total_annual_consumption |-> tac, arg_after |-> w]

\* lines 5-53: how the call ends (exception "" is a normal return), what it
\* returns, its locals at that point and the caller's mapping after it
calculate_monthly_usage(d, postcode, actual_households, monthly_relative_usage, domestic_percentage) ==
  LET postcode_data == FilterRows(d, postcode)
      total_consumption_data == SumTotalCons(postcode_data)
      total_households_data == SumNumMeters(postcode_data)
      consumption_per_household ==
        RDiv(Rat(total_consumption_data, 1), Rat(total_households_data, 1))
      total_annual_consumption ==
        RDiv(RMul(consumption_per_household, Rat(actual_households, 1)),
             domestic_percentage)
      sum_relative == SeqSum(Values(monthly_relative_usage))
      normalized_monthly ==
        [i \in 1..Len(monthly_relative_usage) |->
           [key |-> monthly_relative_usage[i].key,
            val |-> Normalize(monthly_relative_usage[i].val, sum_relative)]]
      monthly_consumption ==
        [i \in 1..Len(normalized_monthly) |->
           [key |-> normalized_monthly[i].key,
            val |-> MonthlyValue(total_annual_consumption, normalized_monthly[i].val)]]
  IN
  IF PostcodeMissing(postcode_data)
  THEN Outcome("ValueError", Message("Postcode '{postcode}' not found in dataset", postcode),
               NoMapping, NoMapping, Zero, monthly_relative_usage)
  ELSE IF HouseholdsMissing(total_households_data)
  THEN Outcome("ValueError", Message("No household data found for postcode '{postcode}'", postcode),
               NoMapping, NoMapping, Zero, monthly_relative_usage)
  \* line 46 divides Python floats: the first factor / 0 raises
  ELSE IF monthly_relative_usage # <<>> /\ IsZero(sum_relative)
  THEN Outcome("ZeroDivisionError", Message("float division by zero", <<>>),
               NoMapping, NoMapping, total_annual_consumption, monthly_relative_usage)
  ELSE Outcome("", NoMessage, monthly_consumption, normalized_monthly,
               total_annual_consumption, monthly_relative_usage)

\* line 66
NonPositiveTotal(total) == IsFinite(total) /\ total[1] <= 0
ZeroTotal(total) == IsZero(total)

\* lines 55-69 written as an update of the argument
make_relative_in_place(monthly_consumption) ==
  LET total == SeqSum(Values(monthly_consumption))
      scaled == [i \in 1..Len(monthly_consumption) |->
                   [key |-> monthly_consumption[i].key,
                    val |-> RDiv(monthly_consumption[i].val, total)]]
  IN  IF ZeroTotal(total)
      THEN [ret |-> monthly_consumption, same |-> TRUE, arg_after |-> monthly_consumption]
      ELSE [ret |-> scaled, same |-> TRUE, arg_after |-> scaled]

\* lines 55-69: the returned mapping, whether it is the argument object
\* itself, and the argument's contents after the call
make_relative(monthly_consumption) ==
  LET total == SeqSum(Values(monthly_consumption)) IN
  IF ZeroTotal(total)
  THEN [ret |-> monthly_consumption, same |-> TRUE, arg_after |-> monthly_consumption]
  ELSE [ret |-> [i \in 1..Len(monthly_consumption) |->
                   [key |-> monthly_consumption[i].key,
                    val |-> RDiv(monthly_consumption[i].val, total)]],
        same |-> FALSE,
        arg_after |-> monthly_consumption]

NoMr == [state |-> "none", src |-> "none", arg |-> NoMapping, arg_after |-> NoMapping,
         ret |-> NoMapping, same |-> FALSE]
NoCmu == [state |-> "none", src |-> "none", postcode |-> <<>>, actual_households |-> 0,
          monthly_relative_usage |-> NoMapping, domestic_percentage |-> Zero,
          exception |-> "", message |-> NoMessage, ret |-> NoMapping,
          normalized_monthly |-> NoMapping, total_annual_consumption |-> Zero,
          arg_after |-> NoMapping]

MrCall(src, m) ==
  LET r == make_relative(m) IN
  [state |-> "returned", src |-> src, arg |-> m, arg_after |-> r.arg_after,
   ret |-> r.ret, same |-> r.same]

CmuCall(src, postcode, actual_households, w, domestic_percentage) ==
  LET r == calculate_monthly_usage(df, postcode, actual_households, w, domestic_percentage) IN
  [state |-> IF r.exception = "" THEN "returned" ELSE "raised",
   src |-> src, postcode |-> postcode, actual_households |-> actual_households,
   monthly_relative_usage |-> w, domestic_percentage |-> domestic_percentage,
   exception |-> r.exception, message |-> r.message, ret |-> r.ret,
   normalized_monthly |-> r.normalized_monthly,
   total_annual_consumption |-> r.total_annual_consumption,
   arg_after |-> r.arg_after]

\* A run of the script makes one chain of calls: nothing has been called yet
Fresh == mr = NoMr /\ cmu = NoCmu

\* make_relative(m) on a mapping the caller built (line 121)
MakeRelative ==
  /\ program = "monthly_energy_uk"
  /\ Fresh
  /\ \E m \in WeightProfiles : mr' = MrCall("caller", m)
  /\ UNCHANGED <<program, df, cmu, shelterVars>>

\* calculate_monthly_usage(...) on a mapping the caller built
CalculateMonthlyUsage ==
  /\ program = "monthly_energy_uk"
  /\ Fresh
  /\ \E postcode \in PostcodeKeys, actual_households \in HouseholdCounts,
        w \in WeightProfiles, domestic_percentage \in DomesticPercentages :
       cmu' = CmuCall("caller", postcode, actual_households, w, domestic_percentage)
  /\ UNCHANGED <<program, df, mr, shelterVars>>

\* calculate_monthly_usage(...) on the mapping make_relative returned (line 125)
CalculateMonthlyUsageOfRelative ==
  /\ program = "monthly_energy_uk"
  /\ mr.state = "returned" /\ mr.src = "caller"
  /\ cmu = NoCmu
  /\ \E postcode \in PostcodeKeys, actual_households \in HouseholdCounts,
        domestic_percentage \in DomesticPercentages :
       cmu' = CmuCall("relative", postcode, actual_households, mr.ret, domestic_percentage)
  /\ UNCHANGED <<program, df, mr, shelterVars>>

\* make_relative(...) on the mapping calculate_monthly_usage returned
MakeRelativeOfUsage ==
  /\ program = "monthly_energy_uk"
  /\ cmu.state = "returned"
  /\ mr.src # "usage"
  /\ mr' = MrCall("usage", cmu.ret)
  /\ UNCHANGED <<program, df, cmu, shelterVars>>

(***************************************************************************)
(* The two programs                                                        *)
(***************************************************************************)
ShelterInit ==
  /\ program = "dog_shelter_energy"
  /\ \E a \in Areas, coef \in Coefs, clim \in Climates :
       ShelterConstructed(a, coef, clim)
  /\ df = <<>> /\ mr = NoMr /\ cmu = NoCmu

UsageInit ==
  /\ program = "monthly_energy_uk"
  /\ NoShelter
  /\ df \in Datasets
  /\ mr = NoMr
  /\ cmu = NoCmu

Init == ShelterInit \/ UsageInit

Next ==
  \/ \E ideal \in IdealTemperatures : CalculateTotalEnergy(ideal)
  \/ MakeRelative
  \/ CalculateMonthlyUsage
  \/ CalculateMonthlyUsageOfRelative
  \/ MakeRelativeOfUsage

Spec == Init /\ [][Next]_vars

(***************************************************************************)
(* Properties                                                              *)
(***************************************************************************)
Shelter == program = "dog_shelter_energy"
Usage == program = "monthly_energy_uk"

RECURSIVE SumAt(_, _)
SumAt(S, xs) ==
  IF S = {} THEN 0 ELSE LET i == CHOOSE j \in S : TRUE IN xs[i] + SumAt(S \ {i}, xs)

\* the dataset rows the latest calculate_monthly_usage call is about
Matched == {i \in 1..Len(df) : StartsWith(df[i].Postcode, cmu.postcode)}
MatchedMeters == SumAt(Matched, [i \in 1..Len(df) |-> df[i].Num_meters])
MatchedCons == SumAt(Matched, [i \in 1..Len(df) |-> df[i].Total_cons_kwh])
WeightSum == SeqSum(Values(cmu.monthly_relative_usage))
AllFinite(m) == \A i \in 1..Len(m) : IsFinite(m[i].val)
One == Rat(1, 1)

\* C1: calculate_monthly_usage ends in a ValueError naming the postcode, and
\* returns no mapping, whenever no row's Postcode starts with the key and
\* whenever the matched rows' Num_meters sum to zero.
C1_NotFound ==
  (Usage /\ cmu.state # "none" /\ (Matched = {} \/ MatchedMeters = 0))
    => /\ cmu.state = "raised"
       /\ cmu.exception = "ValueError"
       /\ cmu.message.postcode = cmu.postcode
       /\ cmu.ret = NoMapping
C1_Witness ==
  /\ Usage /\ cmu.state = "raised" /\ cmu.exception = "ValueError"
  /\ Matched # {} /\ MatchedMeters = 0
  /\ cmu.monthly_relative_usage # <<>> /\ ~IsZero(WeightSum)

\* C2: for a weight profile whose values sum to 0 and a postcode matching
\* rows with a non-zero meter count, calculate_monthly_usage does not raise
\* a division-by-zero error at the re-normalization step.
C2_NoDivisionError ==
  (Usage /\ cmu.state # "none" /\ IsZero(WeightSum) /\ Matched # {} /\ MatchedMeters # 0)
    => cmu.exception # "ZeroDivisionError"

\* C3: make_relative on a mapping with a non-zero total returns the same keys
\* with every entry equal to the input entry divided by the total, so the
\* entries sum to 1; on a zero total (the empty mapping and cancelling
\* entries included) it returns the input itself, unchanged.
C3_MakeRelative ==
  (Usage /\ mr.state = "returned" /\ AllFinite(mr.arg))
    => LET total == SeqSum(Values(mr.arg)) IN
       IF IsZero(total)
       THEN mr.same /\ mr.ret = mr.arg /\ mr.arg_after = mr.arg
       ELSE /\ Keys(mr.ret) = Keys(mr.arg)
            /\ \A i \in 1..Len(mr.arg) : RMul(mr.ret[i].val, total) = mr.arg[i].val
            /\ SeqSum(Values(mr.ret)) = One
C3_Witness ==
  /\ Usage /\ mr.state = "returned" /\ mr.src = "caller"
  /\ Len(mr.arg) >= 2
  /\ \E i, j \in 1..Len(mr.arg) : mr.arg[i].val[1] < 0 /\ mr.arg[j].val[1] > 0
  /\ ~IsZero(SeqSum(Values(mr.arg)))
  /\ ~mr.same /\ mr.ret # mr.arg

\* C4: after calculate_total_energy, a month whose temperature is at least
\* ideal_temperature has heating 0, whatever the area and the coefficient,
\* and a month has strictly positive heating only if its temperature is below
\* ideal_temperature.
C4_NoCooling ==
  Shelter =>
    \A i \in 1..Len(climate) :
      /\ climate[i].val >= ideal_temperature => IsZero(monthly_heating[i])
      /\ IsPositive(monthly_heating[i]) => climate[i].val < ideal_temperature
C4_Witness ==
  /\ Shelter /\ area * heat_loss_ceof # 0
  /\ ideal_temperature # DefaultIdealTemperature
  /\ \E i, j \in 1..Len(climate) :
       /\ climate[i].val > ideal_temperature
       /\ IsPositive(monthly_heating[j])

\* C5: the value calculate_total_energy returns is the sum of monthly_energy
\* as the call left it, monthly_energy[i] = monthly_heating[i] +
\* monthly_lighting[i] at every index, and every monthly_lighting entry is
\* area * 2 * 730 / 1000; for profiles of any length, the empty one included.
C5_TotalIsSum ==
  Shelter =>
    /\ returned = SeqSum(monthly_energy)
    /\ \A i \in 1..Len(monthly_energy) :
         /\ monthly_energy[i] = RAdd(monthly_heating[i], monthly_lighting[i])
         /\ monthly_lighting[i] =
              RDiv(Rat(area * LightingEnergyPerAreaWatts * HoursPerMonth, 1),
                   Rat(WattHoursPerKWh, 1))
    /\ climate = <<>> => returned = Zero
C5_Witness ==
  /\ Shelter /\ area > 0 /\ heat_loss_ceof > 0
  /\ ideal_temperature # DefaultIdealTemperature
  /\ Len(climate) >= 2
  /\ \E i, j \in 1..Len(monthly_energy) : monthly_energy[i] # monthly_energy[j]

\* C6: for a weight profile with a non-zero sum, the re-normalized weights
\* sum to 12 whatever the number of entries, and the returned monthly values
\* sum to scaledTotal / 1000, scaledTotal being (total consumption / total
\* meters) * actual_households / domestic_percentage.
C6_NormalizedSum ==
  (Usage /\ cmu.state = "returned" /\ ~IsZero(WeightSum))
    => /\ SeqSum(Values(cmu.normalized_monthly)) = Rat(12, 1)
       /\ IsFinite(cmu.total_annual_consumption)
            => SeqSum(Values(cmu.ret)) =
                 RDiv(RDiv(Rat(MatchedCons * cmu.actual_households, MatchedMeters),
                           cmu.domestic_percentage),
                      Rat(1000, 1))
C6_Witness ==
  /\ Usage /\ cmu.state = "returned" /\ ~IsZero(WeightSum)
  /\ Len(cmu.monthly_relative_usage) >= 2
  /\ WeightSum # Rat(12, 1) /\ WeightSum # One
  /\ cmu.ret[1].val # cmu.ret[2].val
  /\ IsPositive(cmu.total_annual_consumption)
  /\ cmu.domestic_percentage = DefaultDomesticPercentage

\* C7: for a weight profile w with a non-zero sum and a call whose scaled
\* total is non-zero, make_relative of the mapping calculate_monthly_usage
\* returned gives every month the share w[month] / sum(w), whatever the
\* dataset totals, actual_households and domestic_percentage.
C7_RoundTrip ==
  (/\ Usage /\ mr.state = "returned" /\ mr.src = "usage"
   /\ ~IsZero(WeightSum)
   /\ IsFinite(cmu.total_annual_consumption) /\ ~IsZero(cmu.total_annual_consumption))
    => /\ mr.arg = cmu.ret
       /\ Keys(mr.ret) = Keys(cmu.monthly_relative_usage)
       /\ \A i \in 1..Len(mr.ret) :
            mr.ret[i].val = RDiv(cmu.monthly_relative_usage[i].val, WeightSum)
C7_Witness ==
  /\ Usage /\ mr.state = "returned" /\ mr.src = "usage"
  /\ ~IsZero(WeightSum)
  /\ IsPositive(cmu.total_annual_consumption)
  /\ Len(mr.ret) >= 2 /\ mr.ret[1].val # mr.ret[2].val
  /\ ~mr.same

\* C8: after construction and after every further calculate_total_energy
\* call, monthly_heating, monthly_lighting and monthly_energy have as many
\* entries as climate, entry i being that of the i-th month of climate;
\* nothing of an earlier call remains.
C8_ParallelLists ==
  Shelter =>
    /\ Len(monthly_heating) = Len(climate)
    /\ Len(monthly_lighting) = Len(climate)
    /\ Len(monthly_energy) = Len(climate)
    /\ \A i \in 1..Len(climate) :
         monthly_heating[i] =
           IF climate[i].val < ideal_temperature
           THEN Rat((ideal_temperature - climate[i].val) * area * heat_loss_ceof
                      * HoursPerMonth, WattHoursPerKWh)
           ELSE Zero
C8_Witness ==
  /\ Shelter /\ ideal_temperature # DefaultIdealTemperature
  /\ Len(climate) >= 2 /\ Len(monthly_energy) = Len(climate)
  /\ monthly_heating[1] # monthly_heating[2]

\* C9: in every state reached by constructing a DogShelter and calling
\* calculate_total_energy any number of times, energy_consumption equals the
\* sum of the current monthly_energy entries.
C9_StoredTotalIsSum ==
  Shelter => energy_consumption = SeqSum(monthly_energy)

\* C10: calculate_total_energy leaves climate, area and the heat-loss
\* coefficient as they were; make_relative and calculate_monthly_usage leave
\* the mapping passed in as it was, and on an input with a non-zero sum they
\* return another mapping with the same keys in the same order.
C10_StateFrame ==
  /\ (Usage /\ mr.state = "returned")
       => /\ mr.arg_after = mr.arg
          /\ ~IsZero(SeqSum(Values(mr.arg)))
               => ~mr.same /\ Keys(mr.ret) = Keys(mr.arg)
  /\ (Usage /\ cmu.state # "none")
       => /\ cmu.arg_after = cmu.monthly_relative_usage
          /\ (cmu.state = "returned" /\ ~IsZero(WeightSum))
               => Keys(cmu.ret) = Keys(cmu.monthly_relative_usage)
C10_Frame ==
  /\ []C10_StateFrame
  /\ [][Shelter => (climate' = climate /\ area' = area
                     /\ heat_loss_ceof' = heat_loss_ceof)]_vars
C10_Witness ==
  /\ Usage /\ mr.state = "returned" /\ mr.src = "caller"
  /\ ~IsZero(SeqSum(Values(mr.arg)))
  /\ Len(mr.arg) >= 2 /\ mr.ret # mr.arg
  /\ cmu.state = "returned" /\ cmu.ret # cmu.monthly_relative_usage

====
